---- MODULE Spec2Model ----
(***************************************************************************)
(* Model of the AD713x ADC driver (drivers/adc/ad713x/ad713x.c): the       *)
(* register accessors, the configuration setters built on the masked      *)
(* write, and the init / remove lifecycle with its error unwinding.       *)
(***************************************************************************)
EXTENDS Integers, Naturals, Sequences, FiniteSets, TLC

VARIABLES
    regs,    \* register file of the device, by register address
    dev_id,  \* dev->dev_id
    ret,     \* return value of the last completed API call
    pre,     \* register file before the last API call
    last,    \* the last API call: its name, arguments and bus outcome
    log,     \* platform calls made so far (by the last call, or by init)
    ncalls,  \* number of API calls made on the initialised device
    pc,      \* position in the init / remove lifecycle
    gi,      \* index of the next GPIO line handled by ad713x_init_gpio
    ip,      \* the init_param structure passed to ad713x_init
    devh,    \* the device structure: "none", "held" or "freed"
    spi,     \* dev->spi_desc: "null", "held" or "released"
    gp       \* dev->gpio_*: "null", "held" or "released", by line

vars == <<regs, dev_id, ret, pre, last, log, ncalls, pc, gi, ip, devh, spi, gp>>

(***************************************************************************)
(* Bounds of the model.                                                    *)
(***************************************************************************)
\* number of API calls made on an initialised device
MaxCalls == 1

(***************************************************************************)
(* Return codes (error.h) and the numeric values of the header's enums     *)
(* and register map (ad713x.h).                                            *)
(***************************************************************************)
SUCCESS == 0
FAILURE == -1
\* a negative platform error code different from FAILURE
EIO == -5

IS_ERR_VALUE(x) == x < 0

\* return values of the platform SPI transfer on error
ErrCodes == {FAILURE, EIO}

AD713X_REG_DEVICE_CONFIG == 2
AD713X_REG_DEVICE_CONFIG1 == 16
AD713X_REG_DATA_PACKET_CONFIG == 17
AD713X_REG_DIGITAL_INTERFACE_CONFIG == 18
AD713X_REG_CHAN_DIG_FILTER_SEL == 30
AD713X_REG_FIR_BW_SEL == 31
AD713X_REG_MPC_CONFIG == 38

RegAddrs == {AD713X_REG_DEVICE_CONFIG, AD713X_REG_DEVICE_CONFIG1,
             AD713X_REG_DATA_PACKET_CONFIG,
             AD713X_REG_DIGITAL_INTERFACE_CONFIG,
             AD713X_REG_CHAN_DIG_FILTER_SEL, AD713X_REG_FIR_BW_SEL,
             AD713X_REG_MPC_CONFIG}

\* enum ad713x_adc_data_len
ADC_16_BIT_DATA == 0
ADC_24_BIT_DATA == 1
ADC_32_BIT_DATA == 2
INVALID == 3
\* enum ad713x_crc_header
NO_CRC == 0
CRC_6 == 1
CRC_8 == 2
\* enum ad713x_power_mode
LOW_POWER == 0
HIGH_POWER == 1
\* enum ad713x_channels
CH0 == 0
CH3 == 3
Channels == CH0..CH3
\* enum ad717x_mpc_clkdel
DELAY_NONE == 0
DELAY_1_CLOCKS == 1
DELAY_2_CLOCKS == 2

(***************************************************************************)
(* 8-bit arithmetic.                                                       *)
(***************************************************************************)
Pow2(i) == 2 ^ i

Bit(x, i) == (x \div Pow2(i)) % 2

\* (uint8_t)(a & ~m): m may be wider than 8 bits, the result is truncated
AndNot8(a, m) ==
    Bit(a, 0) * (1 - Bit(m, 0)) + 2 * Bit(a, 1) * (1 - Bit(m, 1))
    + 4 * Bit(a, 2) * (1 - Bit(m, 2)) + 8 * Bit(a, 3) * (1 - Bit(m, 3))
    + 16 * Bit(a, 4) * (1 - Bit(m, 4)) + 32 * Bit(a, 5) * (1 - Bit(m, 5))
    + 64 * Bit(a, 6) * (1 - Bit(m, 6)) + 128 * Bit(a, 7) * (1 - Bit(m, 7))

BitOr(x, y) == IF x + y > 0 THEN 1 ELSE 0

\* (uint8_t)(a | d)
Or8(a, d) ==
    BitOr(Bit(a, 0), Bit(d, 0)) + 2 * BitOr(Bit(a, 1), Bit(d, 1))
    + 4 * BitOr(Bit(a, 2), Bit(d, 2)) + 8 * BitOr(Bit(a, 3), Bit(d, 3))
    + 16 * BitOr(Bit(a, 4), Bit(d, 4)) + 32 * BitOr(Bit(a, 5), Bit(d, 5))
    + 64 * BitOr(Bit(a, 6), Bit(d, 6)) + 128 * BitOr(Bit(a, 7), Bit(d, 7))

\* GENMASK(h, l) and BIT(x)
GENMASK(h, l) == Pow2(h + 1) - Pow2(l)
BIT(x) == Pow2(x)

AD713X_REG_READ(x) == 128 + (x % 128)

AD713X_DEV_CONFIG_PWR_MODE_MSK == BIT(0)
AD713X_DEV_CONFIG1_REF_GAIN_CORR_EN_MSK == BIT(1)
AD713X_DEV_CONFIG1_CLKOUT_EN_MSK == BIT(0)
AD713X_DATA_PACKET_CONFIG_FRAME_MSK == GENMASK(6, 4)
AD713X_DATA_PACKET_CONFIG_FRAME_MODE(x) == (x % 8) * 16
AD713X_DIG_INT_CONFIG_FORMAT_MSK == GENMASK(1, 0)
AD713X_DIG_INT_CONFIG_FORMAT_MODE(x) == x % 4
AD713X_DIGFILTER_SEL_CH_MSK(ch) == GENMASK(1, 0) * Pow2(2 * ch)
AD713X_DIGFILTER_SEL_CH_MODE(x, ch) == (x % 4) * Pow2(2 * ch)
AD713X_FIR_BW_SEL_CH_MSK(ch) == BIT(ch)
AD713X_MPC_CLKDEL_EN_CH_MSK(ch) == GENMASK(1, 0) * Pow2(2 * ch)
AD713X_MPC_CLKDEL_EN_CH_MODE(x, ch) == (x % 4) * Pow2(2 * ch)

(***************************************************************************)
(* ad713x_output_data_frame[3][9][2]: rows the initialiser leaves out are  *)
(* zero-filled, {INVALID} is {INVALID, 0}.  Row i of the C table is row    *)
(* i + 1 here.                                                             *)
(***************************************************************************)
ad713x_output_data_frame ==
    << << <<ADC_16_BIT_DATA, CRC_6>>, <<ADC_24_BIT_DATA, CRC_6>>,
          <<ADC_32_BIT_DATA, NO_CRC>>, <<ADC_32_BIT_DATA, CRC_6>>,
          <<ADC_16_BIT_DATA, NO_CRC>>, <<ADC_24_BIT_DATA, NO_CRC>>,
          <<ADC_24_BIT_DATA, CRC_8>>, <<ADC_32_BIT_DATA, CRC_8>>,
          <<INVALID, 0>> >>,
       << <<ADC_16_BIT_DATA, NO_CRC>>, <<ADC_16_BIT_DATA, CRC_6>>,
          <<ADC_24_BIT_DATA, NO_CRC>>, <<ADC_24_BIT_DATA, CRC_6>>,
          <<ADC_16_BIT_DATA, CRC_8>>, <<ADC_24_BIT_DATA, CRC_8>>,
          <<INVALID, 0>>, <<0, 0>>, <<0, 0>> >>,
       << <<ADC_16_BIT_DATA, NO_CRC>>, <<ADC_16_BIT_DATA, CRC_6>>,
          <<ADC_16_BIT_DATA, CRC_8>>, <<INVALID, 0>>,
          <<0, 0>>, <<0, 0>>, <<0, 0>>, <<0, 0>>, <<0, 0>> >> >>

(***************************************************************************)
(* A call in progress: the register file of the device, the platform       *)
(* calls made so far, the number of bus transfers issued by this call, the *)
(* last return value and the last received byte.                           *)
(* The environment's choice for a call is f: transfer number f.at of the   *)
(* call fails with f.code (f.at = 0: no transfer fails).                   *)
(***************************************************************************)
Call(rf, lg) == [regs |-> rf, log |-> lg, n |-> 0, ret |-> SUCCESS, rx |-> 0]

NoFail == [at |-> 0, code |-> SUCCESS]

FailSpecs(maxN) ==
    {NoFail} \cup {[at |-> k, code |-> c] : k \in 1..maxN, c \in ErrCodes}

\* a bus transfer ("rd", "wr") on register a with data byte d, or a masked
\* write ("wm") of data d under mask m to register a
Ev(e, a, m, d, ok) ==
    [ev |-> e, g |-> "", a |-> a, m |-> m, d |-> d, ok |-> ok]

\* a resource or pin event on GPIO line g (g = "" for the device structure
\* and the SPI descriptor)
GEv(e, g, d, ok) ==
    [ev |-> e, g |-> g, a |-> 0, m |-> 0, d |-> d, ok |-> ok]

\* The two-byte register transaction: bit 7 of the first byte selects a
\* read, whose data comes back in the second byte; a failed transfer does
\* not reach the device.
spi_write_and_read(st, f, b0, b1) ==
    LET k == st.n + 1
        rc == IF f.at = k THEN f.code ELSE SUCCESS
        isRead == b0 >= 128
        addr == b0 % 128
    IN  [regs |-> IF IS_ERR_VALUE(rc) \/ isRead THEN st.regs
                  ELSE [st.regs EXCEPT ![addr] = b1],
         log |-> Append(st.log, Ev(IF isRead THEN "rd" ELSE "wr", addr, 0, b1,
                                   ~IS_ERR_VALUE(rc))),
         n |-> k,
         ret |-> rc,
         rx |-> IF ~IS_ERR_VALUE(rc) /\ isRead THEN st.regs[addr] ELSE b1]

ad713x_spi_reg_read(st, f, reg_addr) ==
    LET r == spi_write_and_read(st, f, AD713X_REG_READ(reg_addr), 0)
    IN  IF IS_ERR_VALUE(r.ret) THEN [r EXCEPT !.ret = FAILURE]
        ELSE [r EXCEPT !.ret = SUCCESS]

ad713x_spi_reg_write(st, f, reg_addr, reg_data) ==
    spi_write_and_read(st, f, reg_addr, reg_data)

\* variant: the result of the register read is not checked
ad713x_spi_write_mask_unchecked(st, f, reg_addr, mask, data) ==
    LET s0 == [st EXCEPT !.log = Append(st.log, Ev("wm", reg_addr, mask,
                                                   data, TRUE))]
        r == ad713x_spi_reg_read(s0, f, reg_addr)
    IN  ad713x_spi_reg_write(r, f, reg_addr, Or8(AndNot8(r.rx, mask), data))

ad713x_spi_write_mask(st, f, reg_addr, mask, data) ==
    LET s0 == [st EXCEPT !.log = Append(st.log, Ev("wm", reg_addr, mask,
                                                   data, TRUE))]
        r == ad713x_spi_reg_read(s0, f, reg_addr)
    IN  IF IS_ERR_VALUE(r.ret) THEN [r EXCEPT !.ret = FAILURE]
        ELSE ad713x_spi_reg_write(r, f, reg_addr,
                                  Or8(AndNot8(r.rx, mask), data))

ad713x_set_power_mode(st, f, mode) ==
    IF mode = LOW_POWER
    THEN ad713x_spi_write_mask(st, f, AD713X_REG_DEVICE_CONFIG,
                               AD713X_DEV_CONFIG_PWR_MODE_MSK, 0)
    ELSE IF mode = HIGH_POWER
    THEN ad713x_spi_write_mask(st, f, AD713X_REG_DEVICE_CONFIG,
                               AD713X_DEV_CONFIG_PWR_MODE_MSK, 1)
    ELSE [st EXCEPT !.ret = FAILURE]

\* variant: the CRC header is not compared
RECURSIVE FrameLoop_len_only(_, _, _, _, _, _)
FrameLoop_len_only(st, f, id, adc_data_len, crc_header, i) ==
    LET row == ad713x_output_data_frame[id + 1][i + 1]
    IN  IF row[1] = INVALID THEN [st EXCEPT !.ret = FAILURE]
        ELSE IF adc_data_len = row[1]
        THEN ad713x_spi_write_mask(st, f, AD713X_REG_DATA_PACKET_CONFIG,
                                   AD713X_DATA_PACKET_CONFIG_FRAME_MSK,
                                   AD713X_DATA_PACKET_CONFIG_FRAME_MODE(i))
        ELSE FrameLoop_len_only(st, f, id, adc_data_len, crc_header, i + 1)

\* the while loop of ad713x_set_out_data_frame, i counted from 0
RECURSIVE FrameLoop(_, _, _, _, _, _)
FrameLoop(st, f, id, adc_data_len, crc_header, i) ==
    LET row == ad713x_output_data_frame[id + 1][i + 1]
    IN  IF row[1] = INVALID THEN [st EXCEPT !.ret = FAILURE]
        ELSE IF adc_data_len = row[1] /\ crc_header = row[2]
        THEN ad713x_spi_write_mask(st, f, AD713X_REG_DATA_PACKET_CONFIG,
                                   AD713X_DATA_PACKET_CONFIG_FRAME_MSK,
                                   AD713X_DATA_PACKET_CONFIG_FRAME_MODE(i))
        ELSE FrameLoop(st, f, id, adc_data_len, crc_header, i + 1)

ad713x_set_out_data_frame(st, f, id, adc_data_len, crc_header) ==
    FrameLoop(st, f, id, adc_data_len, crc_header, 0)

ad713x_dout_format_config(st, f, format) ==
    ad713x_spi_write_mask(st, f, AD713X_REG_DIGITAL_INTERFACE_CONFIG,
                          AD713X_DIG_INT_CONFIG_FORMAT_MSK,
                          AD713X_DIG_INT_CONFIG_FORMAT_MODE(format))

\* variant: the loop condition is i > 0, channel 0 is left out
RECURSIVE ClkDelayLoop_skip_ch0(_, _, _, _)
ClkDelayLoop_skip_ch0(st, f, temp_clk_delay, i) ==
    IF i <= 0 THEN [st EXCEPT !.ret = SUCCESS]
    ELSE LET r == ad713x_spi_write_mask(st, f, AD713X_REG_MPC_CONFIG,
                      AD713X_MPC_CLKDEL_EN_CH_MSK(i),
                      AD713X_MPC_CLKDEL_EN_CH_MODE(temp_clk_delay, i))
         IN  IF IS_ERR_VALUE(r.ret) THEN [r EXCEPT !.ret = FAILURE]
             ELSE ClkDelayLoop_skip_ch0(r, f, temp_clk_delay, i - 1)

\* the for loop of ad713x_mag_phase_clk_delay, i from CH3 down to 0
RECURSIVE ClkDelayLoop(_, _, _, _)
ClkDelayLoop(st, f, temp_clk_delay, i) ==
    IF i < 0 THEN [st EXCEPT !.ret = SUCCESS]
    ELSE LET r == ad713x_spi_write_mask(st, f, AD713X_REG_MPC_CONFIG,
                      AD713X_MPC_CLKDEL_EN_CH_MSK(i),
                      AD713X_MPC_CLKDEL_EN_CH_MODE(temp_clk_delay, i))
         IN  IF IS_ERR_VALUE(r.ret) THEN [r EXCEPT !.ret = FAILURE]
             ELSE ClkDelayLoop(r, f, temp_clk_delay, i - 1)

ad713x_mag_phase_clk_delay(st, f, clk_delay_en) ==
    ClkDelayLoop(st, f, IF clk_delay_en THEN DELAY_2_CLOCKS ELSE DELAY_NONE,
                 CH3)

ad713x_mag_phase_clk_delay_chan(st, f, chan, mode) ==
    ad713x_spi_write_mask(st, f, AD713X_REG_MPC_CONFIG,
                          AD713X_MPC_CLKDEL_EN_CH_MSK(chan),
                          AD713X_MPC_CLKDEL_EN_CH_MODE(mode, chan))

ad713x_dig_filter_sel_ch(st, f, filter, ch) ==
    ad713x_spi_write_mask(st, f, AD713X_REG_CHAN_DIG_FILTER_SEL,
                          AD713X_DIGFILTER_SEL_CH_MSK(ch),
                          AD713X_DIGFILTER_SEL_CH_MODE(filter, ch))

ad713x_clkout_output_en(st, f, enable) ==
    ad713x_spi_write_mask(st, f, AD713X_REG_DEVICE_CONFIG1,
                          AD713X_DEV_CONFIG1_CLKOUT_EN_MSK,
                          IF enable THEN AD713X_DEV_CONFIG1_CLKOUT_EN_MSK
                          ELSE 0)

ad713x_ref_gain_correction_en(st, f, enable) ==
    ad713x_spi_write_mask(st, f, AD713X_REG_DEVICE_CONFIG1,
                          AD713X_DEV_CONFIG1_REF_GAIN_CORR_EN_MSK,
                          IF enable
                          THEN AD713X_DEV_CONFIG1_REF_GAIN_CORR_EN_MSK
                          ELSE 0)

ad713x_wideband_bw_sel(st, f, ch, wb_opt) ==
    ad713x_spi_write_mask(st, f, AD713X_REG_FIR_BW_SEL,
                          AD713X_FIR_BW_SEL_CH_MSK(ch),
                          IF wb_opt # 0 THEN AD713X_FIR_BW_SEL_CH_MSK(ch)
                          ELSE 0)

\* variant: a failed channel does not end the loop
RECURSIVE ChanBwLoop_ignore_err(_, _, _)
ChanBwLoop_ignore_err(st, f, i) ==
    IF i < 0 THEN [st EXCEPT !.ret = SUCCESS]
    ELSE ChanBwLoop_ignore_err(ad713x_wideband_bw_sel(st, f, i, 0), f, i - 1)

\* the for loop of ad713x_init_chan_bw, i from CH3 down to 0
RECURSIVE ChanBwLoop(_, _, _)
ChanBwLoop(st, f, i) ==
    IF i < 0 THEN [st EXCEPT !.ret = SUCCESS]
    ELSE LET r == ad713x_wideband_bw_sel(st, f, i, 0)
         IN  IF IS_ERR_VALUE(r.ret) THEN [r EXCEPT !.ret = FAILURE]
             ELSE ChanBwLoop(r, f, i - 1)

ad713x_init_chan_bw(st, f) == ChanBwLoop(st, f, CH3)

(***************************************************************************)
(* API calls on an initialised device.  Each call is one step; its bus     *)
(* outcome f is chosen by the environment.                                 *)
(***************************************************************************)
Bools == {FALSE, TRUE}

B2N(b) == IF b THEN 1 ELSE 0

\* register values the device may hold before the first call
InitBytes == {0, 165, 255}

\* masks and data bytes tried by the generic accessors
\* registers the generic accessors are tried on
AccRegs == {AD713X_REG_DEVICE_CONFIG, AD713X_REG_MPC_CONFIG}
MaskSet == {1, 48, 257}
DataSet == {0, 2, 16}

Finish(op, p1, p2, p3, f, r) ==
    /\ pc = "ready"
    /\ ncalls < MaxCalls
    /\ regs' = r.regs
    /\ ret' = r.ret
    /\ log' = r.log
    /\ pre' = regs
    /\ last' = [op |-> op, p1 |-> p1, p2 |-> p2, p3 |-> p3, f |-> f]
    /\ ncalls' = ncalls + 1
    /\ UNCHANGED <<dev_id, pc, gi, ip, devh, spi, gp>>

Start == Call(regs, <<>>)

RegRead ==
    \E reg \in AccRegs, f \in FailSpecs(1) :
        Finish("reg_read", reg, 0, 0, f, ad713x_spi_reg_read(Start, f, reg))

RegWrite ==
    \E reg \in AccRegs, data \in DataSet, f \in FailSpecs(1) :
        Finish("reg_write", reg, 0, data, f,
               ad713x_spi_reg_write(Start, f, reg, data))

WriteMask ==
    \E reg \in AccRegs, mask \in MaskSet, data \in DataSet,
       f \in FailSpecs(2) :
        Finish("write_mask", reg, mask, data, f,
               ad713x_spi_write_mask(Start, f, reg, mask, data))

SetPowerMode ==
    \E mode \in {LOW_POWER, HIGH_POWER, 2}, f \in FailSpecs(2) :
        Finish("set_power_mode", mode, 0, 0, f,
               ad713x_set_power_mode(Start, f, mode))

SetOutDataFrame ==
    \E len \in ADC_16_BIT_DATA..INVALID, crc \in NO_CRC..CRC_8,
       f \in FailSpecs(2) :
        Finish("set_out_data_frame", len, crc, 0, f,
               ad713x_set_out_data_frame(Start, f, dev_id, len, crc))

DoutFormatConfig ==
    \E format \in 0..3, f \in FailSpecs(2) :
        Finish("dout_format_config", format, 0, 0, f,
               ad713x_dout_format_config(Start, f, format))

MagPhaseClkDelay ==
    \E en \in Bools, f \in FailSpecs(8) :
        Finish("mag_phase_clk_delay", B2N(en), 0, 0, f,
               ad713x_mag_phase_clk_delay(Start, f, en))

MagPhaseClkDelayChan ==
    \E chan \in Channels, mode \in DELAY_NONE..DELAY_2_CLOCKS,
       f \in FailSpecs(2) :
        Finish("mag_phase_clk_delay_chan", chan, mode, 0, f,
               ad713x_mag_phase_clk_delay_chan(Start, f, chan, mode))

DigFilterSelCh ==
    \E filter \in 0..3, ch \in Channels, f \in FailSpecs(2) :
        Finish("dig_filter_sel_ch", filter, ch, 0, f,
               ad713x_dig_filter_sel_ch(Start, f, filter, ch))

ClkoutOutputEn ==
    \E en \in Bools, f \in FailSpecs(2) :
        Finish("clkout_output_en", B2N(en), 0, 0, f,
               ad713x_clkout_output_en(Start, f, en))

RefGainCorrectionEn ==
    \E en \in Bools, f \in FailSpecs(2) :
        Finish("ref_gain_correction_en", B2N(en), 0, 0, f,
               ad713x_ref_gain_correction_en(Start, f, en))

WidebandBwSel ==
    \E ch \in Channels, wb_opt \in 0..1, f \in FailSpecs(2) :
        Finish("wideband_bw_sel", ch, wb_opt, 0, f,
               ad713x_wideband_bw_sel(Start, f, ch, wb_opt))

(***************************************************************************)
(* Lifecycle: ad713x_init, step by step, and ad713x_remove.                *)
(***************************************************************************)
\* order of the gpio_get calls of ad713x_init_gpio
GetOrder == <<"mode", "dclkmode", "dclkio", "resetn", "pnd">>

\* order of the gpio_direction_output calls that apply init_param levels
DirOrder == <<"mode", "dclkmode", "dclkio", "pnd">>

Gpios == {GetOrder[i] : i \in 1..Len(GetOrder)}

\* variant: resetn is released before pnd
RemoveOrder_swapped ==
    << [test |-> "dclkio", rm |-> "dclkio"],
       [test |-> "dclkio", rm |-> "dclkmode"],
       [test |-> "mode", rm |-> "mode"],
       [test |-> "resetn", rm |-> "resetn"],
       [test |-> "pnd", rm |-> "pnd"] >>

\* ad713x_remove_gpio: the pointer each if tests and the line it releases
RemoveOrder ==
    << [test |-> "dclkio", rm |-> "dclkio"],
       [test |-> "dclkio", rm |-> "dclkmode"],
       [test |-> "mode", rm |-> "mode"],
       [test |-> "pnd", rm |-> "pnd"],
       [test |-> "resetn", rm |-> "resetn"] >>

\* rs = [gp, log, n, ret]; the fr-th gpio_remove call made fails (0: none).
\* A pointer is never reset, so a released line is passed to gpio_remove
\* again by a second ad713x_remove_gpio.
RECURSIVE RemoveGpioLoop(_, _, _)
RemoveGpioLoop(rs, fr, i) ==
    IF i > Len(RemoveOrder) THEN [rs EXCEPT !.ret = SUCCESS]
    ELSE LET e == RemoveOrder[i]
             k == rs.n + 1
             ok == fr # k
             called == [gp |-> IF ok THEN [rs.gp EXCEPT ![e.rm] = "released"]
                               ELSE rs.gp,
                        log |-> Append(rs.log,
                                       GEv("gpio_remove", e.rm, 0, ok)),
                        n |-> k,
                        ret |-> rs.ret]
         IN  IF rs.gp[e.test] # "null"
             THEN IF ok THEN RemoveGpioLoop(called, fr, i + 1)
                  ELSE [called EXCEPT !.ret = FAILURE]
             ELSE RemoveGpioLoop(rs, fr, i + 1)

ad713x_remove_gpio(g, lg, fr) ==
    RemoveGpioLoop([gp |-> g, log |-> lg, n |-> 0, ret |-> SUCCESS], fr, 1)

\* ad713x_remove on a non-NULL dev: fs tells whether spi_remove fails, fr
\* which gpio_remove fails.  Result: [spi, gp, devh, log, ret].
ad713x_remove(s, g, lg, fs, fr) ==
    LET lg1 == Append(lg, GEv("spi_remove", "", B2N(s # "null"), ~fs))
        rg == ad713x_remove_gpio(g, lg1, fr)
    IN  IF fs
        THEN [spi |-> s, gp |-> g, devh |-> "held", log |-> lg1,
              ret |-> FAILURE]
        ELSE IF IS_ERR_VALUE(rg.ret)
        THEN [spi |-> IF s = "null" THEN s ELSE "released", gp |-> rg.gp,
              devh |-> "held", log |-> rg.log, ret |-> FAILURE]
        ELSE [spi |-> IF s = "null" THEN s ELSE "released", gp |-> rg.gp,
              devh |-> "freed",
              log |-> Append(rg.log, GEv("free", "", 0, TRUE)),
              ret |-> SUCCESS]

InitParams ==
    [spi_common_dev : Bools, dev_id : 0..2,
     adc_data_len : ADC_16_BIT_DATA..ADC_32_BIT_DATA,
     crc_header : NO_CRC..CRC_8, format : {0, 2}, clk_delay_en : Bools]

API == <<regs, ret, pre, last, ncalls>>

\* dev = calloc(1, sizeof(*dev))
InitAlloc ==
    /\ pc = "idle"
    /\ \E ok \in Bools :
        /\ log' = Append(log, GEv("calloc_dev", "", 0, ok))
        /\ devh' = IF ok THEN "held" ELSE "none"
        /\ pc' = IF ok THEN "spi" ELSE "failed"
        /\ ret' = IF ok THEN ret ELSE FAILURE
    /\ UNCHANGED <<regs, pre, last, ncalls, dev_id, gi, ip, spi, gp>>

\* spi_init, or the private descriptor of a shared bus.  The calloc of the
\* shared-bus branch is not checked: when it fails the stores through the
\* NULL descriptor either fault or go unnoticed.
InitSpi ==
    /\ pc = "spi"
    /\ \E ok \in Bools, fault \in Bools :
        /\ log' = Append(log, GEv(IF ip.spi_common_dev THEN "calloc_spi"
                                  ELSE "spi_init", "", 0, ok))
        /\ spi' = IF ok THEN "held" ELSE "null"
        /\ pc' = IF ok THEN "gpio_get"
                 ELSE IF ~ip.spi_common_dev THEN "error_dev"
                 ELSE IF fault THEN "crashed" ELSE "gpio_get"
    /\ gi' = 1
    /\ UNCHANGED <<API, dev_id, ip, devh, gp>>

InitGpioGet ==
    /\ pc = "gpio_get"
    /\ \E ok \in Bools :
        /\ log' = Append(log, GEv("gpio_get", GetOrder[gi], 0, ok))
        /\ gp' = IF ok THEN [gp EXCEPT ![GetOrder[gi]] = "held"] ELSE gp
        /\ pc' = IF ~ok THEN "error_gpio"
                 ELSE IF gi = Len(GetOrder) THEN "gpio_dir" ELSE pc
        /\ gi' = IF ok /\ gi < Len(GetOrder) THEN gi + 1 ELSE 1
    /\ UNCHANGED <<API, dev_id, ip, devh, spi>>

\* the levels come from init_param and do not influence the control flow
InitGpioDir ==
    /\ pc = "gpio_dir"
    /\ \E ok \in Bools :
        /\ log' = Append(log, GEv("gpio_dir", DirOrder[gi], 0, ok))
        /\ pc' = IF ~ok THEN "error_gpio"
                 ELSE IF gi = Len(DirOrder) THEN "reset_low" ELSE pc
        /\ gi' = IF ok /\ gi < Len(DirOrder) THEN gi + 1 ELSE 1
    /\ UNCHANGED <<API, dev_id, ip, devh, spi, gp>>

\* gpio_direction_output(dev->gpio_resetn, false); mdelay(100)
InitResetLow ==
    /\ pc = "reset_low"
    /\ \E ok \in Bools :
        /\ log' = Append(log, GEv("gpio_dir", "resetn", 0, ok))
        /\ pc' = IF ok THEN "reset_high" ELSE "error_gpio"
    /\ UNCHANGED <<API, dev_id, gi, ip, devh, spi, gp>>

\* gpio_set_value(dev->gpio_resetn, true); mdelay(100); then back in
\* ad713x_init: dev->dev_id = init_param->dev_id
InitResetHigh ==
    /\ pc = "reset_high"
    /\ \E ok \in Bools :
        /\ log' = Append(log, GEv("gpio_set", "resetn", 1, ok))
        /\ pc' = IF ok THEN "power" ELSE "error_gpio"
        /\ dev_id' = IF ok THEN ip.dev_id ELSE dev_id
    /\ UNCHANGED <<API, gi, ip, devh, spi, gp>>

\* one configuration step of ad713x_init with result r
ConfigStep(from, to, r) ==
    /\ pc = from
    /\ regs' = r.regs
    /\ log' = r.log
    /\ pc' = IF IS_ERR_VALUE(r.ret) THEN "error_gpio" ELSE to
    /\ ret' = IF ~IS_ERR_VALUE(r.ret) /\ to = "ready" THEN SUCCESS ELSE ret
    /\ UNCHANGED <<pre, last, ncalls, dev_id, gi, ip, devh, spi, gp>>

Cur == Call(regs, log)

\* the open-coded power mode write of ad713x_init
init_power_mode(st, f) ==
    LET r == ad713x_spi_reg_read(st, f, AD713X_REG_DEVICE_CONFIG)
    IN  IF IS_ERR_VALUE(r.ret) THEN r
        ELSE ad713x_spi_reg_write(r, f, AD713X_REG_DEVICE_CONFIG,
                                  Or8(r.rx, AD713X_DEV_CONFIG_PWR_MODE_MSK))

InitPowerMode ==
    \E f \in FailSpecs(2) :
        ConfigStep("power", "clkout", init_power_mode(Cur, f))

InitClkout ==
    \E f \in FailSpecs(2) :
        ConfigStep("clkout", "refgain", ad713x_clkout_output_en(Cur, f, TRUE))

InitRefGain ==
    \E f \in FailSpecs(2) :
        ConfigStep("refgain", "frame",
                   ad713x_ref_gain_correction_en(Cur, f, TRUE))

InitFrame ==
    \E f \in FailSpecs(2) :
        ConfigStep("frame", "dout",
                   ad713x_set_out_data_frame(Cur, f, dev_id, ip.adc_data_len,
                                             ip.crc_header))

InitDout ==
    \E f \in FailSpecs(2) :
        ConfigStep("dout", "clkdelay",
                   ad713x_dout_format_config(Cur, f, ip.format))

InitClkDelay ==
    \E f \in FailSpecs(8) :
        ConfigStep("clkdelay", "chanbw",
                   ad713x_mag_phase_clk_delay(Cur, f, ip.clk_delay_en))

InitChanBw ==
    \E f \in FailSpecs(8) :
        ConfigStep("chanbw", "ready", ad713x_init_chan_bw(Cur, f))

\* error_gpio: ad713x_remove_gpio(dev), its result ignored
ErrorGpio ==
    /\ pc = "error_gpio"
    /\ \E fr \in 0..Len(RemoveOrder) :
        LET r == ad713x_remove_gpio(gp, log, fr)
        IN  gp' = r.gp /\ log' = r.log
    /\ pc' = "error_dev"
    /\ UNCHANGED <<API, dev_id, gi, ip, devh, spi>>

\* error_dev: ad713x_remove(dev), its result ignored; return FAILURE
ErrorDev ==
    /\ pc = "error_dev"
    /\ \E fs \in Bools, fr \in 0..Len(RemoveOrder) :
        LET r == ad713x_remove(spi, gp, log, fs, fr)
        IN  /\ spi' = r.spi /\ gp' = r.gp /\ devh' = r.devh
            /\ log' = r.log
    /\ pc' = "failed"
    /\ ret' = FAILURE
    /\ UNCHANGED <<regs, pre, last, ncalls, dev_id, gi, ip>>

\* ad713x_remove called by the application on the device init produced
Remove ==
    /\ pc = "ready"
    /\ \E fs \in Bools, fr \in 0..Len(RemoveOrder) :
        LET r == ad713x_remove(spi, gp, log, fs, fr)
        IN  /\ spi' = r.spi /\ gp' = r.gp /\ devh' = r.devh
            /\ log' = r.log /\ ret' = r.ret
    /\ pc' = "removed"
    /\ UNCHANGED <<regs, pre, last, ncalls, dev_id, gi, ip>>

(***************************************************************************)
(* Specifications.                                                         *)
(***************************************************************************)
NoCall == [op |-> "none", p1 |-> 0, p2 |-> 0, p3 |-> 0, f |-> NoFail]

DefaultParams ==
    [spi_common_dev |-> FALSE, dev_id |-> 0, adc_data_len |-> ADC_16_BIT_DATA,
     crc_header |-> NO_CRC, format |-> 0, clk_delay_en |-> FALSE]

\* an initialised device, every resource held
Ready(id) ==
    /\ dev_id = id
    /\ ret = SUCCESS
    /\ last = NoCall
    /\ log = <<>>
    /\ ncalls = 0
    /\ pc = "ready"
    /\ gi = 1
    /\ ip = [DefaultParams EXCEPT !.dev_id = id]
    /\ devh = "held"
    /\ spi = "held"
    /\ gp = [g \in Gpios |-> "held"]

\* the register API on an initialised device
InitReg ==
    /\ \E v \in InitBytes : regs = [a \in RegAddrs |-> v]
    /\ pre = regs
    /\ \E id \in 0..2 : Ready(id)

NextReg ==
    \/ RegRead \/ RegWrite \/ WriteMask \/ SetPowerMode \/ SetOutDataFrame
    \/ DoutFormatConfig \/ MagPhaseClkDelay \/ MagPhaseClkDelayChan
    \/ DigFilterSelCh \/ ClkoutOutputEn \/ RefGainCorrectionEn
    \/ WidebandBwSel

Spec == InitReg /\ [][NextReg]_vars

\* the clock delay calls from every value of the MPC configuration register
InitDelay ==
    /\ \E v \in 0..255 :
          regs = [a \in RegAddrs |-> IF a = AD713X_REG_MPC_CONFIG THEN v ELSE 0]
    /\ pre = regs
    /\ Ready(0)

NextDelay == MagPhaseClkDelay \/ MagPhaseClkDelayChan

SpecDelay == InitDelay /\ [][NextDelay]_vars

\* ad713x_init from its call to its return, then ad713x_remove
InitLife ==
    /\ regs = [a \in RegAddrs |-> 165]
    /\ pre = regs
    /\ dev_id = 0
    /\ ret = SUCCESS
    /\ last = NoCall
    /\ log = <<>>
    /\ ncalls = 0
    /\ pc = "idle"
    /\ gi = 1
    /\ ip \in InitParams
    /\ devh = "none"
    /\ spi = "null"
    /\ gp = [g \in Gpios |-> "null"]

NextLife ==
    \/ InitAlloc \/ InitSpi \/ InitGpioGet \/ InitGpioDir \/ InitResetLow
    \/ InitResetHigh \/ InitPowerMode \/ InitClkout \/ InitRefGain
    \/ InitFrame \/ InitDout \/ InitClkDelay \/ InitChanBw
    \/ ErrorGpio \/ ErrorDev \/ Remove

SpecLife == InitLife /\ [][NextLife]_vars

(***************************************************************************)
(* Properties.                                                             *)
(***************************************************************************)
\* calls that are one masked write
MaskedOps ==
    {"write_mask", "set_power_mode", "set_out_data_frame",
     "dout_format_config", "mag_phase_clk_delay_chan", "dig_filter_sel_ch",
     "clkout_output_en", "ref_gain_correction_en", "wideband_bw_sel"}

LogHas(e) == \E i \in 1..Len(log) : log[i].ev = e

ReadFailed == \E i \in 1..Len(log) : log[i].ev = "rd" /\ ~log[i].ok

\* C1: after a successful ad713x_spi_write_mask(dev, reg, mask, data) every
\* bit of reg outside mask has its prior value, for every prior value, mask
\* and data byte, and no other register has changed.
C1_MaskedWriteKeepsUnselectedBits ==
    (last.op = "write_mask" /\ ret = SUCCESS) =>
        /\ AndNot8(regs[last.p1], last.p2) = AndNot8(pre[last.p1], last.p2)
        /\ \A a \in RegAddrs \ {last.p1} : regs[a] = pre[a]

\* C6: ad713x_spi_reg_write returns SUCCESS when the transfer succeeds and
\* exactly FAILURE for every error code of the transfer; every setter built
\* on it returns only SUCCESS or FAILURE.
C6_WriteReturnsSuccessOrFailure ==
    /\ last.op = "reg_write" =>
           ret = (IF last.f.at = 0 THEN SUCCESS ELSE FAILURE)
    /\ last.op \in MaskedOps \cup {"mag_phase_clk_delay"} =>
           ret \in {SUCCESS, FAILURE}

\* C10: when the register read of a masked write fails, the call returns
\* FAILURE, issues no write transaction and leaves the registers as they
\* were; this holds for ad713x_spi_write_mask and every single-write setter.
C10_FailedReadWritesNothing ==
    (last.op \in MaskedOps /\ ReadFailed) =>
        /\ ret = FAILURE
        /\ ~LogHas("wr")
        /\ regs = pre

C10_Witness ==
    /\ last.op = "dig_filter_sel_ch"
    /\ ReadFailed
    /\ ret = FAILURE
    /\ last.f.code = EIO

\* the rows of a variant's table before the INVALID sentinel that hold the
\* pair (len, crc), as C indices
FrameHits(id, len, crc) ==
    LET t == ad713x_output_data_frame[id + 1]
        sentinel == CHOOSE k \in 1..Len(t) :
                        /\ t[k][1] = INVALID
                        /\ \A j \in 1..(k - 1) : t[j][1] # INVALID
    IN  {k - 1 : k \in {j \in 1..(sentinel - 1) : t[j] = <<len, crc>>}}

\* C4: ad713x_set_out_data_frame performs one masked write of the frame
\* field of the data packet configuration register with the index of
\* (adc_data_len, crc_header) in the variant's table when the pair is in
\* the table before the sentinel; otherwise it returns FAILURE without any
\* bus transaction.
C4_FrameModeIsTableIndex ==
    last.op = "set_out_data_frame" =>
        LET hits == FrameHits(dev_id, last.p1, last.p2)
        IN  IF hits # {}
            THEN \E i \in hits :
                   /\ Len(log) >= 1
                   /\ log[1] = Ev("wm", AD713X_REG_DATA_PACKET_CONFIG,
                                   AD713X_DATA_PACKET_CONFIG_FRAME_MSK,
                                   16 * i, TRUE)
                   /\ \A k \in 2..Len(log) : log[k].ev # "wm"
                   /\ ret = SUCCESS =>
                        /\ (regs[AD713X_REG_DATA_PACKET_CONFIG] \div 16) % 8 = i
                        /\ regs[AD713X_REG_DATA_PACKET_CONFIG] % 16
                             = pre[AD713X_REG_DATA_PACKET_CONFIG] % 16
                        /\ regs[AD713X_REG_DATA_PACKET_CONFIG] \div 128
                             = pre[AD713X_REG_DATA_PACKET_CONFIG] \div 128
            ELSE ret = FAILURE /\ log = <<>> /\ regs = pre

C4_Witness ==
    /\ last.op = "set_out_data_frame"
    /\ dev_id = 1
    /\ last.p1 = ADC_24_BIT_DATA
    /\ last.p2 = CRC_8
    /\ ret = SUCCESS
    /\ regs[AD713X_REG_DATA_PACKET_CONFIG] = 213
    /\ pre[AD713X_REG_DATA_PACKET_CONFIG] = 165

\* the four per-channel calls, CH0 to CH3, none of whose transfers fails
PerChannel(rf, mode) ==
    LET c0 == ad713x_mag_phase_clk_delay_chan(Call(rf, <<>>), NoFail, CH0, mode)
        c1 == ad713x_mag_phase_clk_delay_chan(Call(c0.regs, <<>>), NoFail, 1,
                                              mode)
        c2 == ad713x_mag_phase_clk_delay_chan(Call(c1.regs, <<>>), NoFail, 2,
                                              mode)
        c3 == ad713x_mag_phase_clk_delay_chan(Call(c2.regs, <<>>), NoFail, CH3,
                                              mode)
    IN  c3.regs

\* C7: when no bus operation fails, ad713x_mag_phase_clk_delay(dev, en)
\* leaves the registers as the four calls ad713x_mag_phase_clk_delay_chan
\* (CH0..CH3) with DELAY_2_CLOCKS (en) or DELAY_NONE (not en) do, and all
\* four channel fields hold that delay, from every prior register value.
C7_ClkDelayIsPerChannelDelay ==
    (last.op = "mag_phase_clk_delay" /\ last.f.at = 0) =>
        LET mode == IF last.p1 = 1 THEN DELAY_2_CLOCKS ELSE DELAY_NONE
        IN  /\ ret = SUCCESS
            /\ regs = PerChannel(pre, mode)
            /\ \A ch \in Channels :
                   (regs[AD713X_REG_MPC_CONFIG] \div Pow2(2 * ch)) % 4 = mode

C7_Witness ==
    /\ last.op = "mag_phase_clk_delay"
    /\ last.p1 = 1
    /\ last.f.at = 0
    /\ pre[AD713X_REG_MPC_CONFIG] = 93
    /\ regs[AD713X_REG_MPC_CONFIG] = 170

IsCleanup(e) == e.ev \in {"gpio_remove", "spi_remove", "free"}

IsInitStep(e) == ~IsCleanup(e)

IsAcquire(e) ==
    e.ev \in {"calloc_dev", "spi_init", "calloc_spi", "gpio_get"} /\ e.ok

\* the resource an acquisition or release event is about
Res(e) ==
    IF e.g # "" THEN e.g
    ELSE IF e.ev \in {"calloc_dev", "free"} THEN "dev" ELSE "spi"

Resources == Gpios \cup {"dev", "spi"}

ResSeq(q) == [i \in 1..Len(q) |-> Res(q[i])]

Reverse(q) == [i \in 1..Len(q) |-> q[Len(q) + 1 - i]]

IsPrefix(p, q) == Len(p) <= Len(q) /\ \A i \in 1..Len(p) : p[i] = q[i]

AcquiredSeq == ResSeq(SelectSeq(log, IsAcquire))

ReleasedSeq == ResSeq(SelectSeq(log, IsCleanup))

Acquired(r) == \E i \in 1..Len(log) : IsAcquire(log[i]) /\ Res(log[i]) = r

\* r was passed to its release operation, whatever that call returned
ReleaseCalls(r) ==
    {i \in 1..Len(log) : /\ IsCleanup(log[i]) /\ Res(log[i]) = r
                         /\ (log[i].ev = "spi_remove" => log[i].d = 1)}

\* C2: when ad713x_init returns FAILURE, every resource it acquired has
\* been released.
C2_FailedInitHoldsNothing ==
    pc = "failed" =>
        \A r \in Resources : Acquired(r) => ReleaseCalls(r) # {}

\* C8: during a failed ad713x_init no resource is passed to its release
\* operation more than once.
C8_NoDoubleRelease ==
    pc \in {"error_gpio", "error_dev", "failed"} =>
        \A r \in Resources : Cardinality(ReleaseCalls(r)) <= 1

\* C5: after ad713x_remove returns for a device of a successful
\* ad713x_init, the SPI descriptor, the five GPIO lines and the device
\* structure have been released, whatever the release calls returned.
C5_RemoveReleasesAll ==
    pc = "removed" =>
        \A r \in Resources : Acquired(r) => ReleaseCalls(r) # {}

\* C3 as claimed: ad713x_remove releases the resources in the reverse of
\* the order in which ad713x_init acquired them.
C3_ReleaseReversesAcquisition ==
    (pc = "removed" /\ ret = SUCCESS) => ReleasedSeq = Reverse(AcquiredSeq)

\* C3: ad713x_remove passes the resources to their release operations in
\* the order SPI descriptor, dclkio, dclkmode, mode, pnd, resetn, device
\* structure, and stops at the first release call that fails.
C3_ReleaseOrder ==
    pc = "removed" =>
        /\ IsPrefix(ReleasedSeq, <<"spi", "dclkio", "dclkmode", "mode", "pnd",
                                   "resetn", "dev">>)
        /\ ret = SUCCESS => Len(ReleasedSeq) = 7
        /\ \A i \in 1..(Len(log) - 1) : IsCleanup(log[i]) => log[i].ok

C3_Witness ==
    /\ pc = "removed"
    /\ ret = SUCCESS
    /\ AcquiredSeq = <<"dev", "spi", "mode", "dclkmode", "dclkio", "resetn",
                       "pnd">>
    /\ Len(ReleasedSeq) = 7

\* what an event says about the order of the steps: everything but the
\* byte a bus write carries
Key(e) == [e EXCEPT !.ok = TRUE, !.d = IF e.ev = "wr" THEN 0 ELSE e.d]

K(e, g, a, m, d) == [ev |-> e, g |-> g, a |-> a, m |-> m, d |-> d, ok |-> TRUE]

\* a masked write: the call, its read and its write
MW(a, m, d) == <<K("wm", "", a, m, d), K("rd", "", a, 0, 0), K("wr", "", a, 0, 0)>>

\* the steps of ad713x_init in the claimed order, for init_param p
ExpectedInit(p) ==
    LET hits == FrameHits(p.dev_id, p.adc_data_len, p.crc_header)
        del == IF p.clk_delay_en THEN 2 ELSE 0
        upToRefGain ==
            << K("calloc_dev", "", 0, 0, 0),
               K(IF p.spi_common_dev THEN "calloc_spi" ELSE "spi_init",
                 "", 0, 0, 0),
               K("gpio_get", "mode", 0, 0, 0),
               K("gpio_get", "dclkmode", 0, 0, 0),
               K("gpio_get", "dclkio", 0, 0, 0),
               K("gpio_get", "resetn", 0, 0, 0),
               K("gpio_get", "pnd", 0, 0, 0),
               K("gpio_dir", "mode", 0, 0, 0),
               K("gpio_dir", "dclkmode", 0, 0, 0),
               K("gpio_dir", "dclkio", 0, 0, 0),
               K("gpio_dir", "pnd", 0, 0, 0),
               K("gpio_dir", "resetn", 0, 0, 0),
               K("gpio_set", "resetn", 0, 0, 1),
               K("rd", "", AD713X_REG_DEVICE_CONFIG, 0, 0),
               K("wr", "", AD713X_REG_DEVICE_CONFIG, 0, 0) >>
            \o MW(AD713X_REG_DEVICE_CONFIG1, 1, 1)
            \o MW(AD713X_REG_DEVICE_CONFIG1, 2, 2)
    IN  IF hits = {} THEN upToRefGain
        ELSE upToRefGain
             \o MW(AD713X_REG_DATA_PACKET_CONFIG, 112, 16 * (CHOOSE i \in hits : TRUE))
             \o MW(AD713X_REG_DIGITAL_INTERFACE_CONFIG, 3, p.format)
             \o MW(AD713X_REG_MPC_CONFIG, 192, 64 * del)
             \o MW(AD713X_REG_MPC_CONFIG, 48, 16 * del)
             \o MW(AD713X_REG_MPC_CONFIG, 12, 4 * del)
             \o MW(AD713X_REG_MPC_CONFIG, 3, del)
             \o MW(AD713X_REG_FIR_BW_SEL, 8, 0)
             \o MW(AD713X_REG_FIR_BW_SEL, 4, 0)
             \o MW(AD713X_REG_FIR_BW_SEL, 2, 0)
             \o MW(AD713X_REG_FIR_BW_SEL, 1, 0)

InitSteps == SelectSeq(log, IsInitStep)

KeySeq(q) == [i \in 1..Len(q) |-> Key(q[i])]

\* C9: the steps of ad713x_init occur in the fixed order: the five
\* gpio_get calls, the pin levels, the reset pin low then high, then the
\* register configuration from power mode to the wideband bandwidth of
\* CH3..CH0; a failing step is the last step performed.
C9_InitStepOrder ==
    LET steps == InitSteps
        keys == KeySeq(steps)
        expected == ExpectedInit(ip)
    IN  /\ IsPrefix(keys, expected)
        /\ log = steps \o SelectSeq(log, IsCleanup)
        /\ \A i \in 1..(Len(steps) - 1) :
               steps[i].ev # "calloc_spi" => steps[i].ok
        /\ pc = "ready" => keys = expected

C9_Witness ==
    /\ pc = "ready"
    /\ ip.clk_delay_en
    /\ ip.dev_id = 0
    /\ ip.adc_data_len = ADC_32_BIT_DATA
    /\ ip.crc_header = CRC_8
    /\ Len(log) = 51
    /\ \A i \in 1..Len(log) : log[i].ok

====
